---- MODULE Spec2Model ----
(***************************************************************************)
(* Model of backend/compiler_service.py: the CompilationQueue (acquire,    *)
(* release, get_position), the compile_facto async generator that drives   *)
(* one request through the queue and the external compiler, and the three  *)
(* Stats counters compile_facto updates (backend/stats.py).                *)
(*                                                                         *)
(* asyncio runs every coroutine on one thread and switches only at an      *)
(* await that suspends or at a yield of the generator.  Neither lock       *)
(* (CompilationQueue._lock, Stats._lock) is ever held across a suspension, *)
(* so each "async with self._lock" body is one atomic step.                 *)
(*                                                                         *)
(* An action is the code one coroutine runs between two suspensions at     *)
(* which the rest of the system can tell the difference.  A run of yields  *)
(* between which the generator touches nothing but its own locals and its  *)
(* own event stream is one action that appends all their events; the       *)
(* suspensions kept are: the yield before the task is made (270), the      *)
(* wait for the acquire task (285), the yield of position 0 (315), and     *)
(* the reads of the running compiler's stderr (380/391).                   *)
(***************************************************************************)
EXTENDS Integers, Sequences, FiniteSets, TLC

\* ---------------------------------------------------------------- bounds
NJobs == 3          \* concurrent submissions (each gets a fresh uuid4)
MaxMaxSize == 2     \* largest queue capacity tried (settings.max_queue_size)
MaxIncidents == 1   \* incidents in one run: a failure of the start hook,
                    \* the sanitizer, the spawn or the compiler, a stream
                    \* the transport abandons, a stderr line, a poll that
                    \* reports a position

Jobs == 1..NJobs
None == 0           \* Python None for _current

VARIABLES
    max_size,           \* CompilationQueue._max_size
    _queue,             \* CompilationQueue._queue
    _current,           \* CompilationQueue._current
    _events,            \* keys of CompilationQueue._events
    _lock,              \* the task holding CompilationQueue._lock, or None
    callback_lock,      \* the values _lock had when position_callback ran
    eventSet,           \* eventSet[j]: the asyncio.Event made by acquire(j) is set
    pc,                 \* where compile_facto(j) is suspended
    tpc,                \* where the acquire(j) task is suspended
    tres,               \* result of the acquire(j) task
    position_updates,   \* compile_facto's position_updates list
    stream,             \* events compile_facto(j) has yielded
    compilation_success,\* compile_facto's compilation_success flag
    process,            \* state of the compiler process of job j
    tmpfiles,           \* state of the two temporary files of job j: "none",
                        \* "present", "removed", or "unlink_failed"
    _data,              \* Stats._data counters
    calls,              \* per job: how often each hook / release was called
                        \* and how often a hook raised
    closed,             \* the caller closed / cancelled the stream of job j
    fault,              \* an exception left compile_facto(j)
    incidents,          \* incidents so far
    enqueued,           \* ids in the order acquire appended them to _queue
    promoted            \* ids in the order release popped them into _current

vars == <<max_size, _queue, _current, _events, _lock, callback_lock,
          eventSet, pc, tpc, tres,
          position_updates, stream, compilation_success, process, tmpfiles,
          _data, calls, closed, fault, incidents, enqueued, promoted>>

queueVars == <<_queue, _current, _events, _lock, eventSet, promoted>>
runVars == <<compilation_success, process, tmpfiles>>
statVars == <<_data, calls>>
envVars == <<closed, fault, incidents>>
taskVars == <<tpc, tres, position_updates, callback_lock, enqueued>>

\* ------------------------------------------------------------ OutputType
Ev(type, val, msg) == [type |-> type, val |-> val, msg |-> msg]
QUEUE(n) == Ev("queue", n, "")
STATUS(msg) == Ev("status", 0, msg)
LOG == Ev("log", 0, "")
ERROR(msg) == Ev("error", 0, msg)
BLUEPRINT == Ev("blueprint", 0, "")

\* ------------------------------------------------------ sequence helpers
RECURSIVE IndexOf(_, _, _)
IndexOf(s, x, i) ==
    IF i > Len(s) THEN 0 ELSE IF s[i] = x THEN i ELSE IndexOf(s, x, i + 1)

InSeq(s, x) == \E i \in 1..Len(s) : s[i] = x

\* list.remove(x): drops the first occurrence
Remove(s, x) ==
    LET k == IndexOf(s, x, 1)
    IN  IF k = 0 THEN s
        ELSE [i \in 1..(Len(s) - 1) |-> IF i < k THEN s[i] ELSE s[i + 1]]

\* ------------------------------------------------------ CompilationQueue
queue_length == Len(_queue)

is_full == Len(_queue) >= max_size

get_position(request_id) ==
    IF _current = request_id THEN 0
    ELSE IF InSeq(_queue, request_id) THEN IndexOf(_queue, request_id, 1)
    ELSE -1

\* Mutants of the locked region of acquire.
\* It admits whenever nobody waits, without looking at _current.
AcquireLocked_IgnoresCurrent(request_id) ==
    IF Len(_queue) = 0
    THEN [out |-> "admitted", cur |-> request_id, q |-> _queue,
          ev |-> _events, position |-> 0]
    ELSE IF Len(_queue) >= max_size
    THEN [out |-> "full", cur |-> _current, q |-> _queue,
          ev |-> _events, position |-> 0]
    ELSE [out |-> "queued", cur |-> _current, q |-> Append(_queue, request_id),
          ev |-> _events \cup {request_id}, position |-> Len(_queue) + 1]

\* The capacity test is > instead of >=.
AcquireLocked_OffByOne(request_id) ==
    IF _current = None /\ Len(_queue) = 0
    THEN [out |-> "admitted", cur |-> request_id, q |-> _queue,
          ev |-> _events, position |-> 0]
    ELSE IF Len(_queue) > max_size
    THEN [out |-> "full", cur |-> _current, q |-> _queue,
          ev |-> _events, position |-> 0]
    ELSE [out |-> "queued", cur |-> _current, q |-> Append(_queue, request_id),
          ev |-> _events \cup {request_id}, position |-> Len(_queue) + 1]

\* The event is stored in _events before the capacity test.
AcquireLocked_RegistersFirst(request_id) ==
    IF _current = None /\ Len(_queue) = 0
    THEN [out |-> "admitted", cur |-> request_id, q |-> _queue,
          ev |-> _events, position |-> 0]
    ELSE IF Len(_queue) >= max_size
    THEN [out |-> "full", cur |-> _current, q |-> _queue,
          ev |-> _events \cup {request_id}, position |-> 0]
    ELSE [out |-> "queued", cur |-> _current, q |-> Append(_queue, request_id),
          ev |-> _events \cup {request_id}, position |-> Len(_queue) + 1]

\* The position is taken before the append.
AcquireLocked_ZeroBased(request_id) ==
    IF _current = None /\ Len(_queue) = 0
    THEN [out |-> "admitted", cur |-> request_id, q |-> _queue,
          ev |-> _events, position |-> 0]
    ELSE IF Len(_queue) >= max_size
    THEN [out |-> "full", cur |-> _current, q |-> _queue,
          ev |-> _events, position |-> 0]
    ELSE [out |-> "queued", cur |-> _current, q |-> Append(_queue, request_id),
          ev |-> _events \cup {request_id}, position |-> Len(_queue)]

\* The locked region of acquire: the outcome and the queue state after it.
AcquireLocked(request_id) ==
    IF _current = None /\ Len(_queue) = 0
    THEN [out |-> "admitted", cur |-> request_id, q |-> _queue,
          ev |-> _events, position |-> 0]
    ELSE IF Len(_queue) >= max_size
    THEN [out |-> "full", cur |-> _current, q |-> _queue,
          ev |-> _events, position |-> 0]
    ELSE [out |-> "queued", cur |-> _current, q |-> Append(_queue, request_id),
          ev |-> _events \cup {request_id}, position |-> Len(_queue) + 1]

\* Mutants of pop(0): pop() takes the last id; q[0] takes none out.
Pop0_Last(q) == [id |-> q[Len(q)], rest |-> SubSeq(q, 1, Len(q) - 1)]

Pop0_Peek(q) == [id |-> Head(q), rest |-> q]

\* self._queue.pop(0): the id taken and the list left.
Pop0(q) == [id |-> Head(q), rest |-> Tail(q)]

\* Mutant of release: the cancel branch pops the head of _queue instead
\* of removing request_id.
ReleaseLocked_DropsHead(request_id) ==
    IF _current = request_id
    THEN IF _queue # <<>>
         THEN LET next_id == Pop0(_queue).id
              IN  [cur |-> next_id, q |-> Pop0(_queue).rest,
                   ev |-> _events \ {next_id},
                   set |-> IF next_id \in _events THEN {next_id} ELSE {},
                   prom |-> <<next_id>>]
         ELSE [cur |-> None, q |-> _queue, ev |-> _events, set |-> {},
               prom |-> <<>>]
    ELSE IF InSeq(_queue, request_id)
    THEN [cur |-> _current, q |-> Pop0(_queue).rest,
          ev |-> _events \ {request_id}, set |-> {}, prom |-> <<>>]
    ELSE [cur |-> _current, q |-> _queue, ev |-> _events, set |-> {},
          prom |-> <<>>]

\* Mutant of release: the slot is cleared and the next waiter is left in
\* _queue.
ReleaseLocked_NoPromotion(request_id) ==
    IF _current = request_id
    THEN [cur |-> None, q |-> _queue, ev |-> _events, set |-> {},
          prom |-> <<>>]
    ELSE IF InSeq(_queue, request_id)
    THEN [cur |-> _current, q |-> Remove(_queue, request_id),
          ev |-> _events \ {request_id}, set |-> {}, prom |-> <<>>]
    ELSE [cur |-> _current, q |-> _queue, ev |-> _events, set |-> {},
          prom |-> <<>>]

\* release(request_id): the queue state after it.
ReleaseLocked(request_id) ==
    IF _current = request_id
    THEN IF _queue # <<>>
         THEN LET next_id == Pop0(_queue).id
              IN  [cur |-> next_id, q |-> Pop0(_queue).rest,
                   ev |-> _events \ {next_id},
                   set |-> IF next_id \in _events THEN {next_id} ELSE {},
                   prom |-> <<next_id>>]
         ELSE [cur |-> None, q |-> _queue, ev |-> _events, set |-> {},
               prom |-> <<>>]
    ELSE IF InSeq(_queue, request_id)
    THEN [cur |-> _current, q |-> Remove(_queue, request_id),
          ev |-> _events \ {request_id}, set |-> {}, prom |-> <<>>]
    ELSE [cur |-> _current, q |-> _queue, ev |-> _events, set |-> {},
          prom |-> <<>>]

\* asyncio.Lock.acquire returns at once when the lock is free, and the
\* with block gives the lock back at its end (line 171).
Release(request_id) ==
    LET r == ReleaseLocked(request_id)
    IN  /\ _lock = None
        /\ _lock' = None
        /\ _current' = r.cur
        /\ _queue' = r.q
        /\ _events' = r.ev
        /\ eventSet' = [k \in Jobs |-> eventSet[k] \/ k \in r.set]
        /\ promoted' = promoted \o r.prom

\* ------------------------------------------------------------------ Stats
record_compilation_start(d) ==
    [d EXCEPT !.total_compilations = @ + 1]

\* Mutants of the hooks.  The first writes back a count read before the
\* other jobs' updates; the second counts a failure as one more start.
record_compilation_success_Overwrites(d) ==
    [d EXCEPT !.successful_compilations = 1]

record_compilation_success(d) ==
    [d EXCEPT !.successful_compilations = @ + 1]

record_compilation_failure_CountsTotal(d) ==
    [d EXCEPT !.total_compilations = @ + 1]

record_compilation_failure(d) ==
    [d EXCEPT !.failed_compilations = @ + 1]

\* ------------------------------------------------------------------- Init
Init ==
    /\ max_size \in 1..MaxMaxSize
    /\ _queue = <<>>
    /\ _current = None
    /\ _events = {}
    /\ _lock = None
    /\ callback_lock = {}
    /\ eventSet = [j \in Jobs |-> FALSE]
    /\ pc = [j \in Jobs |-> "new"]
    /\ tpc = [j \in Jobs |-> "none"]
    /\ tres = [j \in Jobs |-> "none"]
    /\ position_updates = [j \in Jobs |-> <<>>]
    /\ stream = [j \in Jobs |-> <<>>]
    /\ compilation_success = [j \in Jobs |-> FALSE]
    /\ process = [j \in Jobs |-> "none"]
    /\ tmpfiles = [j \in Jobs |-> "none"]
    /\ _data = [total_compilations |-> 0, successful_compilations |-> 0,
                failed_compilations |-> 0]
    /\ calls = [j \in Jobs |-> [start |-> 0, success |-> 0, failure |-> 0,
                                release |-> 0, raised |-> 0]]
    /\ closed = [j \in Jobs |-> FALSE]
    /\ fault = [j \in Jobs |-> FALSE]
    /\ incidents = 0
    /\ enqueued = <<>>
    /\ promoted = <<>>

\* ------------------------------------------------- compile_facto helpers
\* An incident happens only while the budget allows one more.
Incident(happens) ==
    /\ happens => incidents < MaxIncidents
    /\ incidents' = IF happens THEN incidents + 1 ELSE incidents

\* The generator yields the events es in order and is then at pc "at".
Yield(j, es, at) ==
    /\ stream' = [stream EXCEPT ![j] = @ \o es]
    /\ pc' = [pc EXCEPT ![j] = at]

\* Lines 296-299: one QUEUE and one STATUS event per position update.
RECURSIVE PositionEvents(_)
PositionEvents(updates) ==
    IF updates = <<>> THEN <<>>
    ELSE <<QUEUE(Head(updates)), STATUS("waiting")>>
             \o PositionEvents(Tail(updates))

\* Mutant: the inner finally block is missing, nothing is unlinked.
Finally_KeepsFiles(j, files, succ, d, c, f) ==
    /\ UNCHANGED tmpfiles
    /\ compilation_success' = [compilation_success EXCEPT ![j] = succ]
    /\ \E hook \in {"returns", "raises"} :
         IF hook = "returns"
         THEN /\ _data' = IF succ THEN record_compilation_success(d)
                          ELSE record_compilation_failure(d)
              /\ calls' = [calls EXCEPT ![j] =
                             [c EXCEPT !.success = IF succ THEN @ + 1 ELSE @,
                                       !.failure = IF succ THEN @ ELSE @ + 1,
                                       !.release = @ + 1]]
              /\ fault' = [fault EXCEPT ![j] = f]
              /\ Release(j)
         ELSE /\ _data' = d
              /\ calls' = [calls EXCEPT ![j] =
                             [c EXCEPT !.success = IF succ THEN @ + 1 ELSE @,
                                       !.failure = IF succ THEN @ ELSE @ + 1,
                                       !.raised = @ + 1]]
              /\ fault' = [fault EXCEPT ![j] = TRUE]
              /\ UNCHANGED queueVars

\* The finally blocks (lines 423-441), after which the generator is done.
\* files: "none" when the inner try was not entered, else its finally
\* unlinks the two temporary files: "both" exist, or only the "source"
\* file does.  succ: the value of compilation_success.  d, c: the
\* Stats counters and the job's call counts when the finally blocks start.
\* f: an exception is already on its way out of the generator.
\* The Stats hook of line 438/440 returns, or raises (a counter loaded from
\* the stats file is not a number, stats.py 28-34 and 89-90/98-99): nothing
\* catches that, so line 441 is not reached.
\* os.unlink of a file that is missing raises FileNotFoundError, an
\* OSError, which lines 427-428 and 431-432 swallow.
Finally(j, files, succ, d, c, f) ==
    /\ tmpfiles' = [tmpfiles EXCEPT ![j] =
                       IF files = "none" THEN @
                       ELSE IF files = "both" THEN "removed"
                       ELSE "unlink_failed"]
    /\ compilation_success' = [compilation_success EXCEPT ![j] = succ]
    /\ \E hook \in {"returns", "raises"} :
         IF hook = "returns"
         THEN /\ _data' = IF succ THEN record_compilation_success(d)
                          ELSE record_compilation_failure(d)
              /\ calls' = [calls EXCEPT ![j] =
                             [c EXCEPT !.success = IF succ THEN @ + 1 ELSE @,
                                       !.failure = IF succ THEN @ ELSE @ + 1,
                                       !.release = @ + 1]]
              /\ fault' = [fault EXCEPT ![j] = f]
              /\ Release(j)
         ELSE /\ _data' = d
              /\ calls' = [calls EXCEPT ![j] =
                             [c EXCEPT !.success = IF succ THEN @ + 1 ELSE @,
                                       !.failure = IF succ THEN @ ELSE @ + 1,
                                       !.raised = @ + 1]]
              /\ fault' = [fault EXCEPT ![j] = TRUE]
              /\ UNCHANGED queueVars

\* ----------------------------------------------- compile_facto: admission
\* Lines 257-285: the first run of the generator.  With the queue busy it
\* yields its estimated position (269-273) and is suspended there; else it
\* makes the acquire task and waits for it.
\* request_id is a fresh uuid4 that nothing compares or orders, so the
\* jobs are numbered in the order in which their generators first run.
Submit(j) ==
    /\ pc[j] = "new"
    /\ \A k \in Jobs : k < j => pc[k] # "new"
    /\ LET initial_queue_length == queue_length
       IN  IF initial_queue_length > 0 \/ _current # None
           THEN /\ Yield(j, <<QUEUE(initial_queue_length + 1),
                              STATUS("waiting")>>, "y270")
                /\ UNCHANGED tpc
           ELSE /\ pc' = [pc EXCEPT ![j] = "await285"]
                /\ tpc' = [tpc EXCEPT ![j] = "created"]
                /\ UNCHANGED stream
    /\ UNCHANGED <<max_size, queueVars, tres, position_updates,
                   callback_lock, enqueued, runVars, statVars, envVars>>

\* Lines 276-285: create_task, then suspend in wait_for.
Resume270(j) ==
    /\ pc[j] = "y270"
    /\ pc' = [pc EXCEPT ![j] = "await285"]
    /\ tpc' = [tpc EXCEPT ![j] = "created"]
    /\ UNCHANGED <<max_size, queueVars, tres, position_updates,
                   callback_lock, enqueued, stream, runVars, statVars,
                   envVars>>

\* position_callback(pos), which is on_position_update (lines 263-264),
\* called by the acquire task of job j while _lock has the value lock.
Callback(j, pos, lock) ==
    /\ position_updates' = [position_updates EXCEPT ![j] = Append(@, pos)]
    /\ callback_lock' = callback_lock \cup {lock}

\* Mutant: the first callback is made inside the with block.
AcquireStart_CallbackInLock(j) ==
    /\ tpc[j] = "created"
    /\ _lock = None
    /\ _lock' = None
    /\ LET r == AcquireLocked(j)
       IN  /\ _current' = r.cur
           /\ _queue' = r.q
           /\ _events' = r.ev
           /\ enqueued' = IF r.out = "queued" THEN Append(enqueued, j)
                          ELSE enqueued
           /\ IF r.out = "queued"
              THEN /\ tpc' = [tpc EXCEPT ![j] = "wait140"]
                   /\ Callback(j, r.position, j)
                   /\ UNCHANGED tres
              ELSE /\ tpc' = [tpc EXCEPT ![j] = "done"]
                   /\ tres' = [tres EXCEPT ![j] = r.out]
                   /\ UNCHANGED <<position_updates, callback_lock>>
    /\ UNCHANGED <<max_size, eventSet, promoted, pc, stream, runVars,
                   statVars, envVars>>

\* acquire, lines 115-140: the locked region (the lock is free, so it is
\* taken without a suspension, and given back where the with block ends,
\* at a return or after line 130), then the first callback (line 134) and
\* the suspension in wait_for(event.wait(), 1.0).
AcquireStart(j) ==
    /\ tpc[j] = "created"
    /\ _lock = None
    /\ _lock' = None
    /\ LET r == AcquireLocked(j)
       IN  /\ _current' = r.cur
           /\ _queue' = r.q
           /\ _events' = r.ev
           /\ enqueued' = IF r.out = "queued" THEN Append(enqueued, j)
                          ELSE enqueued
           /\ IF r.out = "queued"
              THEN /\ tpc' = [tpc EXCEPT ![j] = "wait140"]
                   /\ Callback(j, r.position, _lock')
                   /\ UNCHANGED tres
              ELSE /\ tpc' = [tpc EXCEPT ![j] = "done"]
                   /\ tres' = [tres EXCEPT ![j] = r.out]
                   /\ UNCHANGED <<position_updates, callback_lock>>
    /\ UNCHANGED <<max_size, eventSet, promoted, pc, stream, runVars,
                   statVars, envVars>>

\* acquire, lines 140-141 and 152: the event was set.
AcquireWake(j) ==
    /\ tpc[j] = "wait140"
    /\ eventSet[j]
    /\ tpc' = [tpc EXCEPT ![j] = "done"]
    /\ tres' = [tres EXCEPT ![j] = "admitted"]
    /\ UNCHANGED <<max_size, queueVars, pc, position_updates, callback_lock,
                   enqueued, stream, runVars, statVars, envVars>>

\* acquire, lines 142-150: the 1.0 s wait timed out.  get_position and
\* the callback run without taking the lock.
AcquirePoll(j) ==
    /\ tpc[j] = "wait140"
    /\ LET pos == get_position(j)
       IN  IF pos = 0
           THEN /\ tpc' = [tpc EXCEPT ![j] = "done"]
                /\ tres' = [tres EXCEPT ![j] = "admitted"]
                /\ UNCHANGED <<position_updates, callback_lock, incidents>>
           ELSE IF pos = -1
           THEN /\ tpc' = [tpc EXCEPT ![j] = "done"]
                /\ tres' = [tres EXCEPT ![j] = "removed"]
                /\ UNCHANGED <<position_updates, callback_lock, incidents>>
           ELSE /\ Incident(TRUE)
                /\ Callback(j, pos, _lock)
                /\ UNCHANGED <<tpc, tres>>
    /\ UNCHANGED <<max_size, queueVars, pc, enqueued, stream, runVars,
                   statVars, closed, fault>>

\* Lines 283-299: the 1.0 s wait_for timed out with the task still
\* waiting and the overall timeout not passed: the pending position
\* updates are yielded.
WaitTick(j) ==
    /\ pc[j] = "await285"
    /\ tpc[j] = "wait140"
    /\ position_updates[j] # <<>>
    /\ Yield(j, PositionEvents(position_updates[j]), "await285")
    /\ position_updates' = [position_updates EXCEPT ![j] = <<>>]
    /\ UNCHANGED <<max_size, queueVars, tpc, tres, callback_lock, enqueued,
                   runVars, statVars, envVars>>

\* Mutants of the wait-timeout path.  The first goes through the finally
\* block of the compilation and so records a failure; the last returns
\* without the release.
QueueTimeout_RecordsFailure(j) ==
    /\ pc[j] = "await285"
    /\ tpc[j] = "wait140"
    /\ Release(j)
    /\ calls' = [calls EXCEPT ![j].release = @ + 1, ![j].failure = @ + 1]
    /\ _data' = record_compilation_failure(_data)
    /\ Yield(j, <<ERROR("queue timeout")>>, "done")
    /\ UNCHANGED <<max_size, taskVars, runVars, envVars>>

\* The third removes the id only while it still waits in _queue.
QueueTimeout_CancelsOnlyWaiters(j) ==
    /\ pc[j] = "await285"
    /\ tpc[j] = "wait140"
    /\ IF InSeq(_queue, j) THEN Release(j) ELSE UNCHANGED queueVars
    /\ calls' = [calls EXCEPT ![j].release = @ + 1]
    /\ Yield(j, <<ERROR("queue timeout")>>, "done")
    /\ UNCHANGED <<max_size, taskVars, runVars, _data, envVars>>

QueueTimeout_NoRelease(j) ==
    /\ pc[j] = "await285"
    /\ tpc[j] = "wait140"
    /\ Yield(j, <<ERROR("queue timeout")>>, "done")
    /\ UNCHANGED <<max_size, queueVars, taskVars, runVars, statVars, envVars>>

\* Lines 286-294: the wait_for timed out and the overall queue timeout
\* (settings.queue_timeout) has passed.
QueueTimeout(j) ==
    /\ pc[j] = "await285"
    /\ tpc[j] = "wait140"
    /\ Release(j)
    /\ calls' = [calls EXCEPT ![j].release = @ + 1]
    /\ Yield(j, <<ERROR("queue timeout")>>, "done")
    /\ UNCHANGED <<max_size, taskVars, runVars, _data, envVars>>

\* Mutant: the result of acquire is not looked at.
AcquireDone_IgnoresFailure(j) ==
    /\ pc[j] = "await285"
    /\ tpc[j] = "done"
    /\ Yield(j, <<QUEUE(0)>>, "y315")
    /\ UNCHANGED <<max_size, queueVars, taskVars, runVars, statVars, envVars>>

\* Lines 301-304 and 315: the acquire task is done.
AcquireDone(j) ==
    /\ pc[j] = "await285"
    /\ tpc[j] = "done"
    /\ IF tres[j] = "admitted"
       THEN Yield(j, <<QUEUE(0)>>, "y315")
       ELSE Yield(j, <<ERROR(tres[j])>>, "done")
    /\ UNCHANGED <<max_size, queueVars, taskVars, runVars, statVars, envVars>>

\* --------------------------------------------- compile_facto: compilation
\* Lines 317-380: record the start (the hook may raise, outside every
\* try), sanitize_source (which may raise ValueError), make the temporary
\* files and start the compiler with create_subprocess_exec (which may
\* raise FileNotFoundError, or another OSError that nothing catches).
Resume315(j) ==
    /\ pc[j] = "y315"
    /\ LET d == record_compilation_start(_data)
           c == [calls[j] EXCEPT !.start = @ + 1]
       IN  \E outcome \in {"StatsError", "ValueError", "FileNotFoundError",
                           "OSError", "started"} :
             /\ Incident(outcome # "started")
             /\ CASE outcome = "StatsError" ->
                       /\ pc' = [pc EXCEPT ![j] = "done"]
                       /\ calls' = [calls EXCEPT ![j] =
                                      [c EXCEPT !.raised = @ + 1]]
                       /\ fault' = [fault EXCEPT ![j] = TRUE]
                       /\ UNCHANGED <<stream, queueVars, runVars, _data>>
                  [] outcome = "ValueError" ->
                       /\ Yield(j, <<ERROR("sanitize")>>, "done")
                       /\ Finally(j, "none", FALSE, d, c, FALSE)
                       /\ UNCHANGED process
                  [] outcome = "FileNotFoundError" ->
                       /\ Yield(j, <<STATUS("starting"), LOG,
                                     ERROR("compiler not found")>>, "done")
                       /\ Finally(j, "both", FALSE, d, c, FALSE)
                       /\ UNCHANGED process
                  [] outcome = "OSError" ->
                       /\ Yield(j, <<STATUS("starting"), LOG>>, "done")
                       /\ Finally(j, "both", FALSE, d, c, TRUE)
                       /\ UNCHANGED process
                  [] outcome = "started" ->
                       /\ Yield(j, <<STATUS("starting"), LOG>>, "await380")
                       /\ tmpfiles' = [tmpfiles EXCEPT ![j] = "present"]
                       /\ process' = [process EXCEPT ![j] = "running"]
                       /\ _data' = d
                       /\ calls' = [calls EXCEPT ![j] = c]
                       /\ UNCHANGED <<queueVars, compilation_success, fault>>
    /\ UNCHANGED <<max_size, taskVars, closed>>

\* Lines 380-388: readline returns a line, which is yielded as a Log.
ReadLine(j) ==
    /\ pc[j] = "await380"
    /\ Incident(TRUE)
    /\ Yield(j, <<LOG>>, "await380")
    /\ UNCHANGED <<max_size, queueVars, taskVars, runVars, statVars, closed,
                   fault>>

\* Mutant: the output file is read whatever the return code is.
ProcessExit_IgnoresReturnCode(j) ==
    /\ pc[j] = "await380"
    /\ process' = [process EXCEPT ![j] = "exited"]
    /\ \E outcome \in {"blueprint", "empty", "missing", "nonzero"} :
         /\ Incident(outcome # "blueprint")
         /\ CASE outcome = "blueprint" ->
                   /\ Yield(j, <<STATUS("successful"), BLUEPRINT>>, "done")
                   /\ Finally(j, "both", TRUE, _data, calls[j], FALSE)
              [] outcome = "empty" ->
                   /\ Yield(j, <<STATUS("successful")>>, "done")
                   /\ Finally(j, "both", TRUE, _data, calls[j], FALSE)
              [] outcome = "missing" ->
                   /\ Yield(j, <<STATUS("successful"), ERROR("no output")>>,
                            "done")
                   /\ Finally(j, "source", FALSE, _data, calls[j], FALSE)
              [] outcome = "nonzero" ->
                   /\ Yield(j, <<STATUS("failed"), BLUEPRINT>>, "done")
                   /\ Finally(j, "both", TRUE, _data, calls[j], FALSE)
    /\ UNCHANGED <<max_size, taskVars, closed>>

\* Lines 381-413: end of file on stderr and the process exits.  With
\* returncode 0 compilation_success is set and the output file is read:
\* it holds a blueprint, is empty, or is missing (FileNotFoundError).
ProcessExit(j) ==
    /\ pc[j] = "await380"
    /\ process' = [process EXCEPT ![j] = "exited"]
    /\ \E outcome \in {"blueprint", "empty", "missing", "nonzero"} :
         /\ Incident(outcome # "blueprint")
         /\ CASE outcome = "blueprint" ->
                   /\ Yield(j, <<STATUS("successful"), BLUEPRINT>>, "done")
                   /\ Finally(j, "both", TRUE, _data, calls[j], FALSE)
              [] outcome = "empty" ->
                   /\ Yield(j, <<STATUS("successful")>>, "done")
                   /\ Finally(j, "both", TRUE, _data, calls[j], FALSE)
              [] outcome = "missing" ->
                   /\ Yield(j, <<STATUS("successful"), ERROR("no output")>>,
                            "done")
                   /\ Finally(j, "source", FALSE, _data, calls[j], FALSE)
              [] outcome = "nonzero" ->
                   /\ Yield(j, <<STATUS("failed"), ERROR("see log")>>, "done")
                   /\ Finally(j, "both", FALSE, _data, calls[j], FALSE)
    /\ UNCHANGED <<max_size, taskVars, closed>>

\* Lines 415-421: asyncio.timeout(settings.compilation_timeout) expires
\* while the generator awaits the process; the process is killed and
\* waited for.
RunTimeout(j) ==
    /\ pc[j] = "await380"
    /\ Incident(TRUE)
    /\ process' = [process EXCEPT ![j] = "killed"]
    /\ Yield(j, <<ERROR("timed out")>>, "done")
    /\ Finally(j, "both", compilation_success[j], _data, calls[j], FALSE)
    /\ UNCHANGED <<max_size, taskVars, closed>>

\* ------------------------------------------------ the caller goes away
\* The transport closes the generator at a yield (GeneratorExit) or
\* cancels it at an await (CancelledError).  Neither is caught by an
\* except clause of compile_facto, so only the enclosing finally blocks
\* run: none before line 323, both once the compiler runs.  The acquire
\* task is not cancelled (it is shielded) and the process is not killed.
BeforeTry == {"y270", "await285", "y315"}
InnerTry == {"await380"}

Close(j) ==
    /\ Incident(TRUE)
    /\ pc[j] \in BeforeTry \cup InnerTry
    /\ closed' = [closed EXCEPT ![j] = TRUE]
    /\ pc' = [pc EXCEPT ![j] = "done"]
    /\ IF pc[j] \in BeforeTry
       THEN UNCHANGED <<queueVars, runVars, statVars, fault>>
       ELSE /\ Finally(j, "both", compilation_success[j], _data, calls[j], FALSE)
            /\ UNCHANGED process
    /\ UNCHANGED <<max_size, taskVars, stream>>

\* ------------------------------------------------------------------- Next
Next ==
    \E j \in Jobs :
        \/ Submit(j)
        \/ Resume270(j)
        \/ AcquireStart(j)
        \/ AcquireWake(j)
        \/ AcquirePoll(j)
        \/ WaitTick(j)
        \/ QueueTimeout(j)
        \/ AcquireDone(j)
        \/ Resume315(j)
        \/ ReadLine(j)
        \/ ProcessExit(j)
        \/ RunTimeout(j)
        \/ Close(j)

Spec == Init /\ [][Next]_vars

\* Fair scheduling: the event loop runs every task that is ready and fires
\* every timer (the 1.0 s polls, settings.queue_timeout); the caller, as
\* long as it does not close the stream, asks for the next event; every
\* compiler run ends.
Fairness ==
    \A j \in Jobs :
        /\ WF_vars(Resume270(j))
        /\ WF_vars(AcquireStart(j))
        /\ WF_vars(AcquireWake(j))
        /\ WF_vars(AcquirePoll(j))
        /\ WF_vars(QueueTimeout(j))
        /\ WF_vars(AcquireDone(j))
        /\ WF_vars(Resume315(j))
        /\ WF_vars(ProcessExit(j))

SpecFair == Spec /\ Fairness

\* ======================================================== derived notions
\* Job j is between its admission (line 301 saw acquire succeed and line
\* 315 yielded position 0) and the release in its finally block.
Admitted(j) == pc[j] \in {"y315", "await380"}

\* Job j's stream has an event of the given type.
Has(j, type) == \E i \in 1..Len(stream[j]) : stream[j][i].type = type

\* How many events of job j's stream are terminal (Artifact or Error).
Terminals(j) ==
    Cardinality({i \in 1..Len(stream[j]) :
                    stream[j][i].type \in {"blueprint", "error"}})

Last(s) == s[Len(s)]

NoDuplicates(s) == \A a, b \in 1..Len(s) : s[a] = s[b] => a = b

\* compile_facto(j) ran to its end with the caller reading every event.
Finished(j) == pc[j] = "done" /\ ~closed[j]

\* ================================================================= claims

C2_PromotesHead ==
    promoted' # promoted =>
        /\ _queue # <<>>
        /\ promoted' = Append(promoted, Head(_queue))
        /\ _current' = Head(_queue)
        /\ _queue' = Tail(_queue)

C2_InOrder ==
    \A a, b \in 1..Len(promoted) :
        a < b => IndexOf(enqueued, promoted[a], 1)
                    < IndexOf(enqueued, promoted[b], 1)

C2_Fifo == [][C2_PromotesHead]_vars /\ []C2_InOrder

\* C2 witness: two ids were waiting together and the first one appended
\* has been promoted while the second still waits.
C2_Witness ==
    /\ Len(enqueued) >= 2
    /\ promoted = <<enqueued[1]>>
    /\ _queue = <<enqueued[2]>>
    /\ pc[enqueued[2]] = "await285"
    /\ stream[enqueued[2]] =
          <<QUEUE(2), STATUS("waiting"), QUEUE(2), STATUS("waiting")>>

\* C3 -- Release-always: a job that reached the active state (its stream
\* holds QueuePosition(0)) never has more than one success/failure record
\* or more than one release, and once its generator has ended it has
\* exactly one of each.
C3_ReleaseAlways ==
    \A j \in Jobs :
        (\E i \in 1..Len(stream[j]) : stream[j][i] = QUEUE(0))
        => /\ calls[j].success + calls[j].failure <= 1
           /\ calls[j].release <= 1
           /\ pc[j] = "done" => /\ calls[j].success + calls[j].failure = 1
                                /\ calls[j].release = 1

\* C4 -- _queue never holds more than max_size ids.
C4_Bounded == Len(_queue) <= max_size

\* C4 witness: _queue is full and a job that came then was not appended.
C4_Witness ==
    /\ Len(_queue) = max_size
    /\ \E j \in Jobs : tres[j] = "full" /\ ~InSeq(_queue, j)

\* C5 -- Capacity rejection: an acquire that starts with max_size ids in
\* _queue returns failure and leaves _current, _queue and _events as they
\* were.
C5_RejectStep ==
    \A j \in Jobs :
        tpc[j] = "created" /\ tpc'[j] # "created" /\ Len(_queue) = max_size
        => /\ tpc'[j] = "done"
           /\ tres'[j] = "full"
           /\ UNCHANGED <<_current, _queue, _events>>

C5_CapacityRejection == [][C5_RejectStep]_vars

\* C5 witness: with _queue full an acquire has just returned failure, its
\* generator has not yet seen the result, and its id is not in _events.
C5_Witness ==
    /\ Len(_queue) = max_size
    /\ _current # None
    /\ \E j \in Jobs :
          /\ tpc[j] = "done" /\ tres[j] = "full" /\ pc[j] = "await285"
          /\ j \notin _events

\* C6 -- An id is never both active and waiting, and never twice in _queue.
C6_OnePlace ==
    /\ \A j \in Jobs : ~(_current = j /\ InSeq(_queue, j))
    /\ NoDuplicates(_queue)

\* C6 witness: release has just moved an id from _queue to _current while
\* another id waits behind it.
C6_Witness ==
    /\ promoted # <<>>
    /\ _current = Last(promoted)
    /\ _queue # <<>>

\* C7 -- The decision of acquire: admit (and become _current) exactly when
\* nothing is active and nobody waits; otherwise reject exactly when
\* _queue is at capacity; otherwise append at the tail and report the new
\* length of _queue as the first position.
C7_DecisionStep ==
    \A j \in Jobs :
        tpc[j] = "created" /\ tpc'[j] # "created"
        => LET idle == _current = None /\ _queue = <<>>
               full == Len(_queue) >= max_size
           IN  /\ (tpc'[j] = "done" /\ tres'[j] = "admitted") <=> idle
               /\ idle => _current' = j /\ _queue' = _queue
               /\ (tpc'[j] = "done" /\ tres'[j] = "full") <=> (~idle /\ full)
               /\ (~idle /\ ~full) =>
                     /\ tpc'[j] = "wait140"
                     /\ _queue' = Append(_queue, j)
                     /\ _current' = _current
                     /\ position_updates'[j] =
                           Append(position_updates[j], Len(_queue'))
                     /\ get_position(j)' = Len(_queue')

C7_DecisionRule == [][C7_DecisionStep]_vars

\* C7 witness: an id was appended behind another and told position 2.
C7_Witness ==
    \E j \in Jobs :
        /\ tpc[j] = "wait140"
        /\ Len(_queue) = 2
        /\ _queue[2] = j
        /\ position_updates[j] = <<2>>

\* The life of a job that acquire turned away: it is never _current, never
\* in _queue, and no Stats hook or release is called for it.
NeverHeld(j) ==
    /\ _current # j
    /\ ~InSeq(_queue, j)
    /\ ~InSeq(enqueued, j)
    /\ calls[j] = [start |-> 0, success |-> 0, failure |-> 0, release |-> 0,
                   raised |-> 0]

\* C8 as stated -- a job rejected at admission emits one event in all, an
\* Error; no QueuePosition or Status event, no Stats hook, never the slot.
C8_OnlyAnError ==
    \A j \in Jobs :
        tres[j] = "full"
        => /\ NeverHeld(j)
           /\ ~Has(j, "queue") /\ ~Has(j, "status")
           /\ Finished(j) => stream[j] = <<ERROR("full")>>

\* C8 amended -- a job rejected at admission emits exactly one Error, as
\* its last event; the only events before it are the QueuePosition/Status
\* pair of the position estimate that compile_facto yields before it calls
\* acquire when the queue was busy; no Stats hook, never the slot.
C8_ErrorAfterEstimate ==
    \A j \in Jobs :
        tres[j] = "full"
        => /\ NeverHeld(j)
           /\ ~Has(j, "log") /\ ~Has(j, "blueprint")
           /\ \/ stream[j] = <<>>
              \/ \E n \in 1..(max_size + 1) :
                    stream[j] = <<QUEUE(n), STATUS("waiting")>>
              \/ /\ pc[j] = "done"
                 /\ \/ stream[j] = <<ERROR("full")>>
                    \/ \E n \in 1..(max_size + 1) :
                          stream[j] = <<QUEUE(n), STATUS("waiting"),
                                        ERROR("full")>>
           /\ Finished(j) => Last(stream[j]) = ERROR("full")

\* C8 witness: a rejected job whose stream is the estimate and the Error.
C8_Witness ==
    \E j \in Jobs :
        /\ tres[j] = "full"
        /\ Finished(j)
        /\ Len(stream[j]) = 3
        /\ stream[j][1].type = "queue"

\* C9 -- record_compilation_success is called for a job exactly when its
\* stream holds an Artifact event.
C9_SuccessIffArtifact ==
    \A j \in Jobs :
        pc[j] = "done" => (calls[j].success > 0 <=> Has(j, "blueprint"))

\* C10 -- The stream of a job that ran to its end has exactly one terminal
\* event (Artifact or Error), it is the last event, and it is an Artifact
\* exactly when the job was recorded a success.
C10_OneTerminalLast ==
    \A j \in Jobs :
        Finished(j) /\ ~fault[j]
        => /\ stream[j] # <<>>
           /\ Terminals(j) = 1
           /\ Last(stream[j]).type \in {"blueprint", "error"}
           /\ Last(stream[j]).type = "blueprint" <=> calls[j].success > 0

\* The job left by the wait-timeout path (lines 286-294).
TimedOutWaiting(j) ==
    \E i \in 1..Len(stream[j]) : stream[j][i] = ERROR("queue timeout")

\* The step in which job j takes the wait-timeout path.
TakesWaitTimeout(j) ==
    stream'[j] = Append(stream[j], ERROR("queue timeout"))

\* The ids of a sequence.
Range(s) == {s[i] : i \in 1..Len(s)}

\* The ids of t appear in s, in the same relative order.
SameOrderIn(t, s) ==
    /\ NoDuplicates(t)
    /\ Range(t) \subseteq Range(s)
    /\ \A a, b \in 1..Len(t) :
          a < b => IndexOf(s, t[a], 1) < IndexOf(s, t[b], 1)

\* No Stats hook was called for job j.
NoStats(j) ==
    calls[j].start = 0 /\ calls[j].success = 0 /\ calls[j].failure = 0

\* Job j went on after its admission: an event follows QueuePosition(0)
\* in its stream, or a hook or the release of its finally block was called.
WentOn(j) ==
    \/ \E i \in 1..(Len(stream[j]) - 1) : stream[j][i] = QUEUE(0)
    \/ calls[j].success + calls[j].failure + calls[j].release > 0

\* C11 -- The Stats hooks are never called for a job rejected at admission
\* or leaving by the wait-timeout path.  For every other job
\* record_compilation_start is called exactly once, after the admission
\* (the call is made with QueuePosition(0) as the job's last event) and
\* before sanitization (whatever the job does after its admission, the one
\* call has been made).
C11_StartStep ==
    \A j \in Jobs :
        calls'[j].start # calls[j].start
        => /\ pc[j] = "y315"
           /\ tres[j] = "admitted"
           /\ Last(stream[j]) = QUEUE(0)
           /\ calls[j].start = 0 /\ calls'[j].start = 1

C11_State ==
    \A j \in Jobs :
        /\ (tres[j] = "full" \/ TimedOutWaiting(j)) => NoStats(j)
        /\ calls[j].start <= 1
        /\ (WentOn(j) /\ ~TimedOutWaiting(j)) => calls[j].start = 1

C12_TimeoutStep ==
    \A j \in Jobs :
        TakesWaitTimeout(j)
        => /\ _current' # j
           /\ ~InSeq(_queue', j)
           /\ j \notin _events'
           /\ SameOrderIn(_queue', _queue)
           /\ Range(_queue) \ {j} = Range(_queue') \cup ({_current'} \ {_current, None})
           /\ pc'[j] = "done"

C12_Afterwards ==
    \A j \in Jobs :
        TimedOutWaiting(j)
        => /\ pc[j] = "done"
           /\ Last(stream[j]) = ERROR("queue timeout")
           /\ Terminals(j) = 1
           /\ _current # j /\ ~InSeq(_queue, j)
           /\ process[j] = "none" /\ tmpfiles[j] = "none"

\* C12: the timeout step and what holds ever after, together.
C12_WaitTimeout == [][C12_TimeoutStep]_vars /\ []C12_Afterwards

\* C12 witness: of two waiters behind a running job the first has left by
\* the wait-timeout path and the second, once told position 2, is now first.
C12_Witness ==
    \E j, k \in Jobs :
        /\ TimedOutWaiting(j)
        /\ enqueued = <<j, k>>
        /\ _queue = <<k>>
        /\ _current \notin {j, k, None}
        /\ process[_current] = "running"

\* C13 -- A Stats hook that raises does not leak the slot: once the
\* generator of a job for which a hook raised has ended, release was called
\* for the job and the job is not _current (the slot is free or with the
\* next waiter).
C13_HookFailureReleases ==
    \A j \in Jobs :
        (calls[j].raised > 0 /\ pc[j] = "done")
        => /\ calls[j].release = 1
           /\ _current # j

\* C14 -- Cancellation of a waiter: when the wait-timeout path releases an
\* id that is in _queue at position p, exactly that id leaves _queue and
\* _events, _current stays, nobody is promoted or woken, the waiters before
\* p keep their positions and those behind p move up by one.
C14_CancelStep ==
    \A j \in Jobs :
        (TakesWaitTimeout(j) /\ InSeq(_queue, j))
        => LET p == IndexOf(_queue, j, 1)
           IN  /\ Len(_queue') = Len(_queue) - 1
               /\ \A q \in 1..Len(_queue) :
                     /\ q < p => /\ _queue'[q] = _queue[q]
                                 /\ IndexOf(_queue', _queue[q], 1) = q
                     /\ q > p => /\ _queue'[q - 1] = _queue[q]
                                 /\ IndexOf(_queue', _queue[q], 1) = q - 1
               /\ get_position(j)' = -1
               /\ _events' = _events \ {j}
               /\ UNCHANGED <<_current, promoted, eventSet>>

\* C14: every step of the program is such a cancel step or none.
C14_CancelWaiter == [][C14_CancelStep]_vars

\* C14 witness: the first of two waiters was cancelled and a later poll
\* told the second one, who had been told 2, that it is now at position 1.
C14_Witness ==
    \E j, k \in Jobs :
        /\ TimedOutWaiting(j)
        /\ enqueued = <<j, k>>
        /\ promoted = <<>>
        /\ get_position(k) = 1
        /\ k \in _events /\ j \notin _events
        /\ position_updates[k] # <<>>
        /\ Last(position_updates[k]) = 1

\* C15 as stated -- the wait-timeout removal of an id that is no longer in
\* _queue (already removed, or already _current) leaves _current, _queue
\* and _events unchanged.
C15_NoOpStep ==
    \A j \in Jobs :
        (TakesWaitTimeout(j) /\ ~InSeq(_queue, j))
        => UNCHANGED <<_current, _queue, _events>>

\* C15 as stated, over every step of the program.
C15_RemovalIsNoOp == [][C15_NoOpStep]_vars

\* C15 amended -- the wait-timeout removal raises no error; release of an
\* id that is neither _current nor in _queue changes nothing; for an id
\* that has already become _current it is a release: the slot goes to the
\* head of _queue, which is woken, or is cleared when nobody waits.
C15_ActiveStep ==
    \A j \in Jobs :
        TakesWaitTimeout(j)
        => /\ fault'[j] = fault[j]
           /\ _current = j =>
                 /\ _queue # <<>> => /\ _current' = Head(_queue)
                                     /\ _queue' = Tail(_queue)
                                     /\ Head(_queue) \notin _events'
                                     /\ eventSet'[Head(_queue)]
                 /\ _queue = <<>> => _current' = None /\ _queue' = <<>>
           /\ (_current # j /\ ~InSeq(_queue, j))
                 => UNCHANGED <<_current, _queue, _events>>

C15_AbsentIsNoOp ==
    \A j \in Jobs :
        (_current # j /\ ~InSeq(_queue, j))
        => ReleaseLocked(j) = [cur |-> _current, q |-> _queue, ev |-> _events,
                               set |-> {}, prom |-> <<>>]

\* C15 amended: the step condition and the no-op of an absent id.
C15_RemovalOfActiveReleases == [][C15_ActiveStep]_vars /\ []C15_AbsentIsNoOp

\* C15 witness: an id that release had already promoted took the
\* wait-timeout path, and the slot went on to the waiter behind it.
C15_Witness ==
    \E j, k \in Jobs :
        /\ TimedOutWaiting(j)
        /\ promoted = <<j, k>>
        /\ _current = k
        /\ tpc[j] = "wait140"
        /\ eventSet[k]

\* Job j was turned down by sanitize_source (lines 325-329).
SanitizeRejected(j) ==
    \E i \in 1..Len(stream[j]) : stream[j][i] = ERROR("sanitize")

\* C16 -- Sanitization rejection of an admitted job: the Error is emitted
\* as the job's last event, no compiler process is spawned and no temporary
\* file is created, record_compilation_failure is called once (and
\* record_compilation_success never), and the slot is released.
C16_SanitizeRejection ==
    \A j \in Jobs :
        SanitizeRejected(j)
        => /\ pc[j] = "done"
           /\ Last(stream[j]) = ERROR("sanitize")
           /\ Terminals(j) = 1
           /\ process[j] = "none" /\ tmpfiles[j] = "none"
           /\ calls[j].start = 1
           /\ calls[j].failure = 1 /\ calls[j].success = 0
           /\ calls[j].release = 1
           /\ _current # j /\ ~InSeq(_queue, j)

\* C17 -- No orphaned process: whenever release has been called for a job
\* whose compiler was spawned, the process has exited or was killed and
\* waited for; a run timeout kills the process, emits Error(timed out) as
\* the last event and has record_compilation_failure called.
C17_TimeoutStep ==
    \A j \in Jobs :
        stream'[j] = Append(stream[j], ERROR("timed out"))
        => /\ process[j] = "running" /\ process'[j] = "killed"
           /\ calls'[j].failure = 1 /\ calls'[j].success = 0
           /\ pc'[j] = "done"

C17_Terminated ==
    \A j \in Jobs :
        (process[j] # "none" /\ (calls[j].release > 0 \/ pc[j] = "done"))
        => process[j] \in {"exited", "killed"}

\* C17: the timeout step and the terminated-before-release condition.
C17_NoOrphan == [][C17_TimeoutStep]_vars /\ []C17_Terminated

\* C18 -- An Artifact event is emitted only for a job whose process exited
\* with code 0 (Status "successful" was emitted just before it) and whose
\* output file was read; a stream with an Artifact holds no Error and no
\* Status of a failed run, so none is emitted after a nonzero exit, a
\* timeout, a spawn failure, a sanitization rejection or a missing file.
C18_ArtifactStep ==
    \A j \in Jobs :
        (Has(j, "blueprint")' /\ ~Has(j, "blueprint"))
        => /\ pc[j] = "await380"
           /\ process[j] = "running" /\ process'[j] = "exited"
           /\ stream'[j] = stream[j] \o <<STATUS("successful"), BLUEPRINT>>
           /\ tmpfiles[j] = "present"

C18_ArtifactOnly ==
    \A j \in Jobs :
        Has(j, "blueprint")
        => /\ process[j] = "exited"
           /\ Last(stream[j]) = BLUEPRINT
           /\ Terminals(j) = 1
           /\ ~Has(j, "error")
           /\ \A i \in 1..Len(stream[j]) : stream[j][i] # STATUS("failed")

\* C18: the step that emits the Artifact and the streams that hold one.
C18_ArtifactOnlyOnSuccess == [][C18_ArtifactStep]_vars /\ []C18_ArtifactOnly

\* C18 witness: a job ended with an Artifact while other jobs ended with an
\* Error.
C18_Witness ==
    \E j, k \in Jobs :
        /\ Finished(j) /\ Has(j, "blueprint")
        /\ Finished(k) /\ Has(k, "error") /\ ~Has(k, "blueprint")
        /\ process[k] = "exited"

\* Job j reached the spawn of lines 357-363 (the Log of line 354 was
\* yielded) and no process came of it.
SpawnFailed(j) ==
    pc[j] = "done" /\ Has(j, "log") /\ process[j] = "none"

\* C19 -- Spawn failure: a job whose compiler could not be located or
\* started ends with a generic Error event as its terminal event, no
\* exception leaves compile_facto, a failure is recorded and the slot is
\* released.
C19_SpawnFailure ==
    \A j \in Jobs :
        SpawnFailed(j)
        => /\ Last(stream[j]) = ERROR("compiler not found")
           /\ Terminals(j) = 1
           /\ ~fault[j]
           /\ calls[j].failure = 1 /\ calls[j].success = 0
           /\ calls[j].release = 1
           /\ _current # j

\* C20 -- Temporary files: a job that entered the inner try (the Log of
\* line 354 was yielded after both files were made) never releases the slot
\* or ends with the files still in place: they were unlinked, or the unlink
\* failed; and a failed unlink changes nothing else: the failure is
\* recorded, and the slot is released and no exception leaves the job
\* unless a Stats hook raised.
C20_FilesGone ==
    \A j \in Jobs :
        /\ (Has(j, "log") /\ (pc[j] = "done" \/ calls[j].release > 0))
           => tmpfiles[j] \in {"removed", "unlink_failed"}
        /\ tmpfiles[j] = "present" => pc[j] = "await380"
        /\ tmpfiles[j] = "unlink_failed"
           => /\ pc[j] = "done"
              /\ Last(stream[j]) = ERROR("no output")
              /\ calls[j].failure = 1 /\ calls[j].success = 0
              /\ calls[j].release = 1 <=> calls[j].raised = 0
              /\ fault[j] <=> calls[j].raised > 0

\* C20 witness: one job ended with an Artifact and its files removed,
\* another found no output file, could not unlink it, and still recorded
\* its failure and released the slot.
C20_Witness ==
    \E j, k \in Jobs :
        /\ Has(j, "blueprint") /\ tmpfiles[j] = "removed"
        /\ calls[j].release = 1
        /\ tmpfiles[k] = "unlink_failed"
        /\ calls[k].release = 1 /\ ~fault[k]

\* The jobs submitted so far.
Submitted == {k \in Jobs : pc[k] # "new"}

\* Job j's stream holds QueuePosition(n).
Told(j, n) == \E i \in 1..Len(stream[j]) : stream[j][i] = QUEUE(n)

\* C21 -- Two submissions on an idle queue: the one that had to wait (it
\* was appended to _queue) has QueuePosition(1) in its stream before its
\* QueuePosition(0), and has QueuePosition(0) only after release was called
\* for the job admitted first.
C21_SecondSeesOneThenZero ==
    \A j, k \in Jobs :
        (Submitted = {j, k} /\ j # k /\ enqueued = <<j>> /\ Told(j, 0))
        => /\ \E a, b \in 1..Len(stream[j]) :
                 a < b /\ stream[j][a] = QUEUE(1) /\ stream[j][b] = QUEUE(0)
           /\ Told(k, 0)
           /\ calls[k].release = 1
           /\ promoted = <<j>>

\* C22 -- position_callback is never invoked while CompilationQueue._lock
\* is held: at every invocation so far the lock was free, and the lock is
\* never held while a task is suspended.
C22_CallbackOutsideLock ==
    /\ callback_lock \subseteq {None}
    /\ _lock = None

\* C22 witness: the callback ran at the append (line 134) and again at a
\* poll (line 150) for a waiter that has not been drained meanwhile.
C22_Witness ==
    \E j \in Jobs :
        /\ Len(position_updates[j]) = 2
        /\ callback_lock = {None}
        /\ tpc[j] = "wait140"

\* The calls of each hook that ran to their end.  A raising
\* record_compilation_start ends the generator before any other hook is
\* called; a raising success/failure hook is the job's last hook call.
RaisedAtStart(j) ==
    calls[j].raised > 0 /\ calls[j].success + calls[j].failure = 0

CompletedStarts ==
    Cardinality({j \in Jobs : calls[j].start = 1 /\ ~RaisedAtStart(j)})

CompletedSuccesses ==
    Cardinality({j \in Jobs : calls[j].success = 1 /\ calls[j].raised = 0})

CompletedFailures ==
    Cardinality({j \in Jobs : calls[j].failure = 1 /\ calls[j].raised = 0})

C24_NoJobWaitsForever ==
    \A j \in Jobs :
        /\ InSeq(_queue, j)
              ~> \/ tres[j] = "admitted"
                 \/ ~InSeq(_queue, j) /\ _current # j
        /\ (eventSet[j] /\ tpc[j] = "wait140") ~> tpc[j] = "done"

\* C25 -- No finished job holds the slot: in every state a job whose
\* generator has ended (by running to its end, by an error or a timeout, or
\* by the caller closing or cancelling it at a suspension point) is neither
\* _current nor in _queue.
C25_FinishedHoldsNothing ==
    \A j \in Jobs :
        pc[j] = "done" => /\ _current # j
                          /\ ~InSeq(_queue, j)

\* C26 -- The slot is never idle while jobs wait: in every state, if
\* _current is empty then _queue is empty.
C26_NoIdleSlotWithWaiters == _current = None => _queue = <<>>

\* The slot is idle again after a release that promoted a waiter and a
\* later one that found _queue empty.
C26_Witness ==
    /\ _current = None
    /\ promoted # <<>>
    /\ \E j \in Jobs : calls[j].release > 0 /\ InSeq(promoted, j)

\* C27 -- Within one job's stream the QueuePosition values never go up: no
\* QueuePosition event carries a larger position than an earlier one of
\* the same stream, and no QueuePosition event comes after QueuePosition(0).
C27_PositionsNeverGoUp ==
    \A j \in Jobs :
        \A a, b \in 1..Len(stream[j]) :
            (a < b /\ stream[j][a].type = "queue" /\ stream[j][b].type = "queue")
            => /\ stream[j][b].val <= stream[j][a].val
               /\ stream[j][a].val # 0

\* The second half on its own: nothing follows QueuePosition(0) that is a
\* QueuePosition event.
C27_NothingAfterZero ==
    \A j \in Jobs :
        \A a, b \in 1..Len(stream[j]) :
            (a < b /\ stream[j][a] = QUEUE(0)) => stream[j][b].type # "queue"

\* C28 -- Statistics conservation: from fresh counters, in every state
\* total_compilations - (successful_compilations + failed_compilations) is
\* 0 or 1, and it is 0 whenever _current is empty.
Unfinished ==
    _data.total_compilations
        - (_data.successful_compilations + _data.failed_compilations)

C28_Conservation ==
    /\ Unfinished \in {0, 1}
    /\ _current = None => Unfinished = 0

\* A second compilation is under way after a finished one: the difference
\* is 1 and the slot is held.
C28_Witness ==
    /\ Unfinished = 1
    /\ _data.total_compilations = 2
    /\ \E j \in Jobs : pc[j] = "await380" /\ _current = j

\* The slot is idle after a successful and a failed compilation.
C28_WitnessIdle ==
    /\ Unfinished = 0
    /\ _current = None
    /\ _data.successful_compilations = 1
    /\ _data.failed_compilations = 1

TypeOK ==
    /\ max_size \in 1..MaxMaxSize
    /\ _current \in Jobs \cup {None}
    /\ _events \subseteq Jobs
    /\ \A j \in Jobs : tres[j] \in {"none", "admitted", "full", "removed"}

====
